---- MODULE Spec2Model ----
(***************************************************************************)
(* A state-machine model of src/server.ts (saxi's plot server): the        *)
(* connection supervisor (connect / ebbs / waitForEbb / tryOpen), the      *)
(* observer set and broadcast, and the /plot and /cancel handlers with     *)
(* doPlot and simulatePlot.                                                *)
(*                                                                         *)
(* Node runs one task at a time, so one action is one run of a callback    *)
(* or of an async function from one await to the next.  The EBB device     *)
(* operations are opaque: an awaited operation resolves or rejects.        *)
(***************************************************************************)
EXTENDS Integers, Sequences, FiniteSets, TLC

\* ---------------------------------------------------------------- bounds
MaxMotions == 2      \* longest plan submitted
MaxPlots == 2        \* plot requests submitted in one behaviour
MaxHandles == 2      \* serial ports opened successfully in one behaviour
MaxObservers == 2    \* WebSocket clients
MaxRetries == 2      \* backoff sleeps counted in one connection attempt

Plots == 1..MaxPlots
Observers == 1..MaxObservers
Paths == {"/dev/ttyACM0", "/dev/ttyACM1"}

\* A motion is an XYMotion or a PenMotion.  A PenMotion has an initialPos: the
\* pen motion at place k of a plan is given initialPos k, so that the pen motions
\* of one plan all differ in it.
Motions == {"xy", "pen"}
Plans == UNION {[1..n -> Motions] : n \in 0..MaxMotions}
InitialPos(pl, k) == k

\* Device.Axidraw.penPctToPos(0), the fully-up pen position: a position that is
\* no pen motion's initialPos
PenUpPos == MaxMotions + 1
\* the argument of ebb.enableMotors
MicrosteppingMode == 2

VARIABLES
  device,         \* the device argument of startServer: a path, or NoDevice
  ebb,            \* the current EBB handle ([id, path]) or Null
  sup,            \* the supervisor task: [pc, com, retries]: its position in ebbs(),
                  \* the path found (const com, "none" outside its scope), the
                  \* backoff sleeps of this connection attempt
  nhandles,       \* number of ports opened so far; the next handle's id is nhandles+1
  clients,        \* the array of registered WebSockets
  wsState,        \* per observer: "none" (no socket), "open", "closed" (close not yet handled)
  lastDev,        \* per observer: path of the last dev message its socket was sent
  lastBroadcast,  \* the last broadcast() call: the message, who was sent it, whether
                  \* the call threw; tick changes at every call
  cancelRequested,
  pc,             \* per plot: the await its handler is suspended at
  kind,           \* per plot: "hw" (doPlot) or "sim" (simulatePlot)
  plan,           \* per plot: the deserialized plan
  idx,            \* per plot: the loop variable i
  trace,          \* per plot: what it did so far (device calls, results, broadcasts)
  wake,           \* per plot: its wake-lock
  overlap,        \* a plot was submitted while another one was running
  stale           \* per plot: cancelRequested was set when the plot was submitted

vars == <<device, ebb, sup, nhandles, clients, wsState, lastDev, lastBroadcast,
          cancelRequested, pc, kind, plan, idx, trace, wake, overlap, stale>>

supVars == <<device, ebb, sup, nhandles>>
hubVars == <<clients, wsState>>
sentVars == <<lastDev, lastBroadcast>>
plotVars == <<pc, kind, plan, idx, trace, wake, overlap, stale>>

Null == [id |-> 0, path |-> "none"]
NullPath == "null"
\* device: string | null = null
NoDevice == "no device"
NoPath == "unsent"

\* ------------------------------------------------------------- messages
Msg(c, path, motionIdx) == [c |-> c, path |-> path, motionIdx |-> motionIdx]
NoMsg == Msg("none", NoPath, -1)
ProgressMsg(i) == Msg("progress", NoPath, i)
FinishedMsg == Msg("finished", NoPath, -1)
CancelledMsg == Msg("cancelled", NoPath, -1)

DevPathAlways(e) == e.path
\* ebb ? ebb.port.path : null
DevPath(e) == IF e # Null THEN e.path ELSE NullPath

DevMsg(e) == Msg("dev", DevPath(e), -1)

\* -------------------------------------------------------------- broadcast
\* clients.forEach with the try/catch inside the callback: ws.send throws on a
\* socket that is not open; the catch logs and the loop goes on.
RECURSIVE SendFrom(_, _, _)
SendFrom(cs, st, k) ==
  IF k > Len(cs) THEN [delivered |-> {}, threw |-> FALSE]
  ELSE LET rest == SendFrom(cs, st, k + 1) IN
       IF st[cs[k]] = "open"
       THEN [delivered |-> {cs[k]} \cup rest.delivered, threw |-> rest.threw]
       ELSE rest

\* the same loop without the catch: the first failing send ends the call
RECURSIVE SendFromUncaught(_, _, _)
SendFromUncaught(cs, st, k) ==
  IF k > Len(cs) THEN [delivered |-> {}, threw |-> FALSE]
  ELSE IF st[cs[k]] = "open"
       THEN LET rest == SendFromUncaught(cs, st, k + 1) IN
            [delivered |-> {cs[k]} \cup rest.delivered, threw |-> rest.threw]
       ELSE [delivered |-> {}, threw |-> TRUE]

SendAllUncaught(cs, st) == SendFromUncaught(cs, st, 1)
SendAll(cs, st) == SendFrom(cs, st, 1)

\* does broadcast() throw into its caller, in the current state
BroadcastThrows == SendAll(clients, wsState).threw

\* the effect of one broadcast(msg) call on what the observers were sent
Broadcast(msg) ==
  LET r == SendAll(clients, wsState) IN
  /\ lastBroadcast' = [msg |-> msg, delivered |-> r.delivered, threw |-> r.threw,
                       tick |-> ~lastBroadcast.tick]
  /\ lastDev' = [w \in Observers |->
                   IF msg.c = "dev" /\ w \in r.delivered THEN msg.path ELSE lastDev[w]]

\* zero or one broadcast in a step
Emit(msgs) ==
  IF msgs = <<>> THEN UNCHANGED sentVars ELSE Broadcast(msgs[1])

\* ------------------------------------------------------- observer set
Range(s) == {s[k] : k \in 1..Len(s)}

\* wss.on("connection"): push the socket, send it the current device state
Connection(w) ==
  /\ wsState[w] = "none"
  /\ clients' = Append(clients, w)
  /\ wsState' = [wsState EXCEPT ![w] = "open"]
  /\ lastDev' = [lastDev EXCEPT ![w] = DevPath(ebb)]
  /\ UNCHANGED <<lastBroadcast, cancelRequested>>
  /\ UNCHANGED supVars
  /\ UNCHANGED plotVars

\* the transport of a registered socket closes; its "close" event is queued
TransportClosed(w) ==
  /\ wsState[w] = "open"
  /\ wsState' = [wsState EXCEPT ![w] = "closed"]
  /\ UNCHANGED <<clients, lastDev, lastBroadcast, cancelRequested>>
  /\ UNCHANGED supVars
  /\ UNCHANGED plotVars

\* ws.on("close"): clients = clients.filter((w) => w !== ws)
Close(w) ==
  /\ wsState[w] = "closed"
  /\ clients' = SelectSeq(clients, LAMBDA x : x # w)
  /\ wsState' = [wsState EXCEPT ![w] = "none"]
  /\ lastDev' = [lastDev EXCEPT ![w] = NoPath]
  /\ UNCHANGED <<lastBroadcast, cancelRequested>>
  /\ UNCHANGED supVars
  /\ UNCHANGED plotVars

\* ---------------------------------------------------- connection supervisor
\* one more sleep(5000) before the port opens (counted up to MaxRetries)
Backoff(n) == IF n < MaxRetries THEN n + 1 ELSE n

\* what the catch block of ebbs() leads to: the backoff sleep, then the loop
CatchGivesUp == "stopped"
CatchTarget == "sleepRetry"

\* the same step without the broadcast
YieldedSilently(d, nextpc, com, n) ==
  /\ ebb' = d
  /\ UNCHANGED sentVars
  /\ sup' = [sup EXCEPT !.pc = nextpc, !.com = com, !.retries = n]

\* the step of connect() that follows a value yielded by ebbs():
\* ebb = d; broadcast({c: "dev", ...}); a throw out of it would end connect()
Yielded(d, nextpc, com, n) ==
  /\ ebb' = d
  /\ Broadcast(DevMsg(d))
  /\ sup' = [sup EXCEPT !.pc = IF BroadcastThrows THEN "stopped" ELSE nextpc,
                         !.com = com, !.retries = n]

\* the path parameter of ebbs(path?) as connect() calls it: ebbs(), with no
\* argument, whatever the device argument of startServer is
EbbsPath(dev) == NoDevice

\* the head of the loop of ebbs(): const com = path || (await waitForEbb())
LoopHead(path) ==
  IF path # NoDevice THEN [pc |-> "open", com |-> path]
  ELSE [pc |-> "list", com |-> "none"]

\* waitForEbb: EBB.list() resolves with no port: sleep(5000) and list again
ListEmpty ==
  /\ sup.pc = "list"
  /\ sup' = [sup EXCEPT !.pc = "sleepList", !.retries = Backoff(@)]
  /\ UNCHANGED <<device, ebb, nhandles, cancelRequested>>
  /\ UNCHANGED hubVars /\ UNCHANGED sentVars /\ UNCHANGED plotVars

\* waitForEbb: EBB.list() resolves with ports: ebbs[0] is returned, tryOpen(com)
ListFound(path) ==
  /\ sup.pc = "list"
  /\ sup' = [sup EXCEPT !.pc = "open", !.com = path]
  /\ UNCHANGED <<device, ebb, nhandles, cancelRequested>>
  /\ UNCHANGED hubVars /\ UNCHANGED sentVars /\ UNCHANGED plotVars

\* EBB.list() rejects: caught in ebbs()
ListFails ==
  /\ sup.pc = "list"
  /\ sup' = [sup EXCEPT !.pc = CatchTarget, !.retries = Backoff(@)]
  /\ UNCHANGED <<device, ebb, nhandles, cancelRequested>>
  /\ UNCHANGED hubVars /\ UNCHANGED sentVars /\ UNCHANGED plotVars

\* the sleep(5000) of waitForEbb ends: list again; or that of the catch block
\* ends: the loop of ebbs() starts over
SleepDone ==
  /\ sup.pc \in {"sleepList", "sleepRetry"}
  /\ sup' = IF sup.pc = "sleepList" THEN [sup EXCEPT !.pc = "list"]
            ELSE [sup EXCEPT !.pc = LoopHead(EbbsPath(device)).pc,
                             !.com = LoopHead(EbbsPath(device)).com]
  /\ UNCHANGED <<device, ebb, nhandles, cancelRequested>>
  /\ UNCHANGED hubVars /\ UNCHANGED sentVars /\ UNCHANGED plotVars

\* tryOpen resolves: yield new EBB(port); connect() publishes it
OpenOk ==
  /\ sup.pc = "open"
  /\ nhandles < MaxHandles
  /\ nhandles' = nhandles + 1
  /\ Yielded([id |-> nhandles + 1, path |-> sup.com], "connected", "none", sup.retries)
  /\ UNCHANGED <<device, clients, wsState, cancelRequested>>
  /\ UNCHANGED plotVars

\* tryOpen rejects: caught, logged, retried after the sleep
OpenFails ==
  /\ sup.pc = "open"
  /\ sup' = [sup EXCEPT !.pc = CatchTarget, !.com = "none", !.retries = Backoff(@)]
  /\ UNCHANGED <<device, ebb, nhandles, cancelRequested>>
  /\ UNCHANGED hubVars /\ UNCHANGED sentVars /\ UNCHANGED plotVars

\* the port emits "close" or "error": yield null; connect() publishes it;
\* the generator loops
LinkLost ==
  /\ sup.pc = "connected"
  /\ Yielded(Null, LoopHead(EbbsPath(device)).pc, LoopHead(EbbsPath(device)).com, 0)
  /\ UNCHANGED <<device, nhandles, clients, wsState, cancelRequested>>
  /\ UNCHANGED plotVars

\* ------------------------------------------------------------ plot engine
Ended == {"done", "failed"}
Active(p) == pc[p] \notin {"idle", "done", "failed"}

\* one entry of a plot's trace: the wake-lock acquisition ("wakeLock", a = 1 if
\* it was acquired), a device call (k = the method, a = its argument,
\* h = the handle it went to), its result ("ok" / "fail"), a broadcast
\* ("progress" with a = motionIdx, "finished", "cancelled"), a thrown exception,
\* or the arrival of a cancel request while the plot runs ("cancel")
E(k, a, h) == [k |-> k, a |-> a, h |-> h]

Res(npc, ni, ntr, msgs, c) ==
  [pc |-> npc, idx |-> ni, trace |-> ntr, msgs |-> msgs, cancel |-> c]

\* an exception leaves the async function: its promise rejects
Throws(what, i, tr, msgs, c) == Res("failed", i, Append(tr, E(what, 0, 0)), msgs, c)

\* await ebb.<op>(a): the method is looked up on the shared variable ebb
CallEbb(op, a, npc, i, tr, msgs, c) ==
  IF ebb = Null THEN Throws("TypeError: ebb is null", i, tr, msgs, c)
  ELSE Res(npc, i, Append(tr, E(op, a, ebb.id)), msgs, c)

ResetForgotten(c) == c
\* cancelRequested = false, before the loop
ResetCancel(c) == FALSE

LoopNeverBreaks(c) == FALSE
\* if (cancelRequested) { break; }
LoopBreaks(c) == c

NeverCancelled(c) == FALSE
\* if (cancelRequested) { ... cancelled ... } else { ... finished ... }
IsCancelled(c) == c

\* plan.motions.find((x) => x instanceof PenMotion): its index, 0 if there is none
FirstPenIdx(pl) ==
  IF \E k \in 1..Len(pl) : pl[k] = "pen"
  THEN CHOOSE k \in 1..Len(pl) : pl[k] = "pen" /\ \A j \in 1..(k - 1) : pl[j] # "pen"
  ELSE 0

\* the cancelled branch with its broadcast before the pen is raised
HwAfterLoopEarly(i, tr, c) ==
  IF IsCancelled(c)
  THEN CallEbb("setPenHeight", PenUpPos, "penUp", i, Append(tr, E("cancelled", 0, 0)),
               <<CancelledMsg>>, c)
  ELSE CallEbb("waitUntilMotorsIdle", 0, "waitUntilMotorsIdle", i,
               Append(tr, E("finished", 0, 0)), <<FinishedMsg>>, c)

\* doPlot, from the end of the loop: the cancelled and the finished branch, up to
\* the next await
HwAfterLoop(i, tr, c) ==
  IF IsCancelled(c)
  THEN CallEbb("setPenHeight", PenUpPos, "penUp", i, tr, <<>>, c)
  ELSE LET tr1 == Append(tr, E("finished", 0, 0)) IN
       IF BroadcastThrows THEN Throws("throw", i, tr1, <<FinishedMsg>>, c)
       ELSE CallEbb("waitUntilMotorsIdle", 0, "waitUntilMotorsIdle", i, tr1,
                    <<FinishedMsg>>, c)

\* the loop head without its broadcast
HwLoopSilent(pl, i, tr, c) ==
  IF i < Len(pl)
  THEN CallEbb("executeMotion", i, "executeMotion", i, tr, <<>>, c)
  ELSE HwAfterLoop(i, tr, c)

\* doPlot, the head of the loop at index i: broadcast progress, await executeMotion
HwLoop(pl, i, tr, c) ==
  IF i < Len(pl)
  THEN LET tr1 == Append(tr, E("progress", i, 0)) IN
       IF BroadcastThrows THEN Throws("throw", i, tr1, <<ProgressMsg(i)>>, c)
       ELSE CallEbb("executeMotion", i, "executeMotion", i, tr1, <<ProgressMsg(i)>>, c)
  ELSE HwAfterLoop(i, tr, c)

\* simulatePlot, from the end of the loop
SimAfterLoop(i, tr, c) ==
  IF IsCancelled(c)
  THEN LET tr1 == Append(tr, E("cancelled", 0, 0)) IN
       IF BroadcastThrows THEN Throws("throw", i, tr1, <<CancelledMsg>>, c)
       ELSE Res("done", i, tr1, <<CancelledMsg>>, FALSE)
  ELSE LET tr1 == Append(tr, E("finished", 0, 0)) IN
       IF BroadcastThrows THEN Throws("throw", i, tr1, <<FinishedMsg>>, c)
       ELSE Res("done", i, tr1, <<FinishedMsg>>, c)

\* a loop head that looks at ebb again and turns to the device once it is there
SimLoopChecksDevice(pl, i, tr, c) ==
  IF ebb # Null THEN HwLoop(pl, i, tr, c)
  ELSE IF i < Len(pl)
       THEN Res("sleep", i, Append(Append(tr, E("progress", i, 0)), E("setTimeout", i, 0)),
                <<ProgressMsg(i)>>, c)
       ELSE SimAfterLoop(i, tr, c)

\* simulatePlot, the head of the loop at index i: broadcast progress, await the timer
SimLoop(pl, i, tr, c) ==
  IF i < Len(pl)
  THEN LET tr1 == Append(tr, E("progress", i, 0)) IN
       IF BroadcastThrows THEN Throws("throw", i, tr1, <<ProgressMsg(i)>>, c)
       ELSE Res("sleep", i, Append(tr1, E("setTimeout", i, 0)), <<ProgressMsg(i)>>, c)
  ELSE SimAfterLoop(i, tr, c)

\* a loop that takes no notice of a cancel request during the last motion
SimResumeFinishesLast(pl, i, tr, c) ==
  IF LoopBreaks(c) /\ i + 1 < Len(pl) THEN SimAfterLoop(i, tr, c)
  ELSE SimLoop(pl, i + 1, tr, FALSE)

\* simulatePlot after the timer of motion i: break if cancelled, else i += 1
SimResume(pl, i, tr, c) ==
  IF LoopBreaks(c) THEN SimAfterLoop(i, tr, c) ELSE SimLoop(pl, i + 1, tr, c)

ReleaseOnSuccessOnly(w, outcome) == IF w = "held" /\ outcome = "done" THEN "released" ELSE w
\* the finally of the /plot handler: if (wakeLock) { wakeLock.release(); }
HandlerFinally(w, outcome) == IF w = "held" THEN "released" ELSE w

\* the handler of plot p runs to its next await (or to its end) with result r
Apply(p, r, w) ==
  /\ pc' = [pc EXCEPT ![p] = r.pc]
  /\ idx' = [idx EXCEPT ![p] = r.idx]
  /\ trace' = [trace EXCEPT ![p] = r.trace]
  /\ wake' = [wake EXCEPT ![p] = IF r.pc \in Ended THEN HandlerFinally(w, r.pc) ELSE w]
  /\ cancelRequested' = r.cancel
  /\ Emit(r.msgs)

\* a handler that turns a plot away while another one is running
PostPlotExclusive(p, pl, lockOk) ==
  /\ pc[p] = "idle"
  /\ pl \in Plans
  /\ \A q \in Plots : q < p => pc[q] # "idle"
  /\ \A q \in Plots : ~Active(q)
  /\ kind' = [kind EXCEPT ![p] = IF ebb # Null THEN "hw" ELSE "sim"]
  /\ plan' = [plan EXCEPT ![p] = pl]
  /\ overlap' = overlap
  /\ stale' = [stale EXCEPT ![p] = cancelRequested]
  /\ Apply(p,
           IF ebb # Null
           THEN CallEbb("enableMotors", MicrosteppingMode, "enableMotors", 0,
                        <<E("wakeLock", IF lockOk THEN 1 ELSE 0, 0)>>, <<>>,
                        cancelRequested)
           ELSE SimLoop(pl, 0, <<E("wakeLock", IF lockOk THEN 1 ELSE 0, 0)>>,
                        ResetCancel(cancelRequested)),
           IF lockOk THEN "held" ELSE "unavailable")
  /\ UNCHANGED supVars /\ UNCHANGED hubVars

\* app.post("/plot"): deserialize, acknowledge, take the wake-lock, then doPlot if
\* a device is connected and simulatePlot if not, up to the first await
PostPlot(p, pl, lockOk) ==
  /\ pc[p] = "idle"
  /\ pl \in Plans
  /\ \A q \in Plots : q < p => pc[q] # "idle"
  /\ kind' = [kind EXCEPT ![p] = IF ebb # Null THEN "hw" ELSE "sim"]
  /\ plan' = [plan EXCEPT ![p] = pl]
  /\ overlap' = (overlap \/ \E q \in Plots : Active(q))
  /\ stale' = [stale EXCEPT ![p] = cancelRequested]
  /\ Apply(p,
           IF ebb # Null
           THEN CallEbb("enableMotors", MicrosteppingMode, "enableMotors", 0,
                        <<E("wakeLock", IF lockOk THEN 1 ELSE 0, 0)>>, <<>>,
                        cancelRequested)
           ELSE SimLoop(pl, 0, <<E("wakeLock", IF lockOk THEN 1 ELSE 0, 0)>>,
                        ResetCancel(cancelRequested)),
           IF lockOk THEN "held" ELSE "unavailable")
  /\ UNCHANGED supVars /\ UNCHANGED hubVars

\* plot p has not yet left its loop over the motions
InLoopOrBefore(p) == pc[p] \in {"enableMotors", "setPenHeight", "executeMotion", "sleep"}

\* app.post("/cancel"): cancelRequested = true.  The trace of a plot that has not
\* yet left its loop notes the arrival ("cancel", once per await).
PostCancel ==
  /\ cancelRequested' = TRUE
  /\ trace' = [p \in Plots |->
                 IF InLoopOrBefore(p) /\ trace[p][Len(trace[p])].k # "cancel"
                 THEN Append(trace[p], E("cancel", 0, 0)) ELSE trace[p]]
  /\ UNCHANGED <<pc, kind, plan, idx, wake, overlap, stale>>
  /\ UNCHANGED supVars /\ UNCHANGED hubVars /\ UNCHANGED sentVars

\* the rejection is swallowed and the function returns
RejectedIgnored(p) ==
  Res("done", idx[p], Append(trace[p], E("fail", 0, 0)), <<>>, cancelRequested)

\* the awaited device operation of plot p rejects
Rejected(p) == Throws("fail", idx[p], trace[p], <<>>, cancelRequested)
Resolved(p) == Append(trace[p], E("ok", 0, 0))

\* the handler of plot p resumes after its awaited operation
Resume(p, ok, r) ==
  /\ Apply(p, IF ok THEN r ELSE Rejected(p), wake[p])
  /\ UNCHANGED <<kind, plan, overlap, stale>>
  /\ UNCHANGED supVars /\ UNCHANGED hubVars

\* doPlot after await ebb.enableMotors(2): find the first pen motion, set the pen
EnableMotorsDone(p, ok) ==
  /\ pc[p] = "enableMotors"
  /\ Resume(p, ok,
       IF FirstPenIdx(plan[p]) = 0
       THEN Throws("TypeError: firstPenMotion is undefined", 0, Resolved(p), <<>>,
                   cancelRequested)
       ELSE CallEbb("setPenHeight", InitialPos(plan[p], FirstPenIdx(plan[p])),
                    "setPenHeight", 0, Resolved(p), <<>>, cancelRequested))

\* the same step without the reset
SetPenHeightDoneNoReset(p, ok) ==
  /\ pc[p] = "setPenHeight"
  /\ Resume(p, ok, HwLoop(plan[p], 0, Resolved(p), cancelRequested))

\* doPlot after await ebb.setPenHeight(...): cancelRequested = false; i = 0; the loop
SetPenHeightDone(p, ok) ==
  /\ pc[p] = "setPenHeight"
  /\ Resume(p, ok, HwLoop(plan[p], 0, Resolved(p), ResetCancel(cancelRequested)))

\* doPlot after await ebb.executeMotion(motion): break if cancelled, else i += 1
ExecuteMotionDone(p, ok) ==
  /\ pc[p] = "executeMotion"
  /\ Resume(p, ok,
       IF LoopBreaks(cancelRequested)
       THEN HwAfterLoop(idx[p], Resolved(p), cancelRequested)
       ELSE HwLoop(plan[p], idx[p] + 1, Resolved(p), cancelRequested))

\* doPlot after the pen-up of the cancelled branch: broadcast cancelled, clear
\* the flag, await waitUntilMotorsIdle
PenUpDone(p, ok) ==
  /\ pc[p] = "penUp"
  /\ Resume(p, ok,
       LET tr1 == Append(Resolved(p), E("cancelled", 0, 0)) IN
       IF BroadcastThrows
       THEN Throws("throw", idx[p], tr1, <<CancelledMsg>>, cancelRequested)
       ELSE CallEbb("waitUntilMotorsIdle", 0, "waitUntilMotorsIdle", idx[p], tr1,
                    <<CancelledMsg>>, FALSE))

\* doPlot after await ebb.waitUntilMotorsIdle(): await ebb.disableMotors()
WaitIdleDone(p, ok) ==
  /\ pc[p] = "waitUntilMotorsIdle"
  /\ Resume(p, ok,
       CallEbb("disableMotors", 0, "disableMotors", idx[p], Resolved(p), <<>>,
               cancelRequested))

\* doPlot after await ebb.disableMotors(): doPlot returns, the handler's finally runs
DisableMotorsDone(p, ok) ==
  /\ pc[p] = "disableMotors"
  /\ Resume(p, ok,
       Res("done", idx[p], Resolved(p), <<>>, cancelRequested))

\* simulatePlot after the timer of motion i: break if cancelled, else i += 1
TimerDone(p) ==
  /\ pc[p] = "sleep"
  /\ Resume(p, TRUE,
       SimResume(plan[p], idx[p], Resolved(p), cancelRequested))

\* ------------------------------------------------------------ specification
\* the state when server.listen's callback has called connect(), which runs to
\* its first await; dev is the device argument
InitWith(dev) ==
  /\ device = dev
  /\ ebb = Null
  /\ sup = [pc |-> LoopHead(EbbsPath(dev)).pc, com |-> LoopHead(EbbsPath(dev)).com,
            retries |-> 0]
  /\ nhandles = 0
  /\ clients = <<>>
  /\ wsState = [w \in Observers |-> "none"]
  /\ lastDev = [w \in Observers |-> NoPath]
  /\ lastBroadcast = [msg |-> NoMsg, delivered |-> {}, threw |-> FALSE,
                      tick |-> FALSE]
  /\ cancelRequested = FALSE
  /\ pc = [p \in Plots |-> "idle"]
  /\ kind = [p \in Plots |-> "none"]
  /\ plan = [p \in Plots |-> <<>>]
  /\ idx = [p \in Plots |-> 0]
  /\ trace = [p \in Plots |-> <<>>]
  /\ wake = [p \in Plots |-> "none"]
  /\ overlap = FALSE
  /\ stale = [p \in Plots |-> FALSE]

\* started without a device argument
Init == InitWith(NoDevice)

\* started with or without a device argument
InitAny == \E dev \in Paths \cup {NoDevice} : InitWith(dev)

\* the connection supervisor
NextSup ==
  \/ ListEmpty
  \/ \E path \in Paths : ListFound(path)
  \/ ListFails
  \/ SleepDone
  \/ OpenOk
  \/ OpenFails
  \/ LinkLost

\* the observers
NextHub ==
  \/ \E w \in Observers : Connection(w)
  \/ \E w \in Observers : TransportClosed(w)
  \/ \E w \in Observers : Close(w)

\* discovery and open succeed; the link may be lost.  The plots and the
\* broadcast never read a handle's path: one path is discovered.
NextLink ==
  \/ ListFound("/dev/ttyACM0")
  \/ OpenOk
  \/ LinkLost

\* one plot request: it is acknowledged, then the device resolves or rejects
\* each operation it awaits
NextPlot ==
  \/ \E pl \in Plans, lockOk \in BOOLEAN : PostPlot(1, pl, lockOk)
  \/ \E ok \in BOOLEAN : EnableMotorsDone(1, ok)
  \/ \E ok \in BOOLEAN : SetPenHeightDone(1, ok)
  \/ \E ok \in BOOLEAN : ExecuteMotionDone(1, ok)
  \/ \E ok \in BOOLEAN : PenUpDone(1, ok)
  \/ \E ok \in BOOLEAN : WaitIdleDone(1, ok)
  \/ \E ok \in BOOLEAN : DisableMotorsDone(1, ok)
  \/ TimerDone(1)

\* Spec: one plot request, with cancel requests, failing device operations and a
\* failing wake-lock, while the device connects and disconnects.  No observer
\* is connected; the supervisor's retries, which leave ebb alone, are left to
\* SpecSup.
Next == NextLink \/ NextPlot \/ PostCancel

Spec == Init /\ [][Next]_vars

\* SpecRun: as Spec, with the wake-lock always acquired.
NextRunPlot ==
  \/ \E pl \in Plans : PostPlot(1, pl, TRUE)
  \/ \E ok \in BOOLEAN : EnableMotorsDone(1, ok)
  \/ \E ok \in BOOLEAN : SetPenHeightDone(1, ok)
  \/ \E ok \in BOOLEAN : ExecuteMotionDone(1, ok)
  \/ \E ok \in BOOLEAN : PenUpDone(1, ok)
  \/ \E ok \in BOOLEAN : WaitIdleDone(1, ok)
  \/ \E ok \in BOOLEAN : DisableMotorsDone(1, ok)
  \/ TimerDone(1)

NextRun == NextLink \/ NextRunPlot \/ PostCancel

SpecRun == Init /\ [][NextRun]_vars

\* SpecSup: the whole supervisor and the observers, the server started with
\* or without a device argument; no plot is submitted.
NextSupSpec == NextSup \/ NextHub

SpecSup == InitAny /\ [][NextSupSpec]_vars

\* SpecHub: the observers and one plot request, while the device connects and
\* disconnects; the device answers no operation of a hardware plot (the plot
\* hangs at its first await), a simulated plot runs.  simulatePlot reads no
\* motion's kind, so the plans are the plans of XYMotions.
NextHubSpec ==
  \/ NextLink
  \/ NextHub
  \/ \E n \in 0..MaxMotions : PostPlot(1, [k \in 1..n |-> "xy"], TRUE)
  \/ TimerDone(1)

SpecHub == Init /\ [][NextHubSpec]_vars

\* SpecPair: the same plan is submitted up to MaxPlots times, each request after
\* the one before it has ended, with cancel requests.  Discovery and open
\* succeed, the link may be lost, the device operations succeed and the
\* wake-lock is acquired.
Resubmit(p, pl) ==
  /\ \A q \in Plots : ~Active(q)
  /\ p > 1 => pl = plan[1]
  /\ PostPlot(p, pl, TRUE)

NextPair ==
  \/ NextLink
  \/ \E p \in Plots, pl \in Plans : Resubmit(p, pl)
  \/ \E p \in Plots : EnableMotorsDone(p, TRUE)
  \/ \E p \in Plots : SetPenHeightDone(p, TRUE)
  \/ \E p \in Plots : ExecuteMotionDone(p, TRUE)
  \/ \E p \in Plots : PenUpDone(p, TRUE)
  \/ \E p \in Plots : WaitIdleDone(p, TRUE)
  \/ \E p \in Plots : DisableMotorsDone(p, TRUE)
  \/ \E p \in Plots : TimerDone(p)
  \/ PostCancel

SpecPair == Init /\ [][NextPair]_vars

\* SpecOverlap: up to MaxPlots plot requests that may overlap, with cancel
\* requests; a device may connect, its link holds, the device operations
\* succeed and the wake-lock is acquired.
NextOverlap ==
  \/ ListFound("/dev/ttyACM0")
  \/ OpenOk
  \/ \E p \in Plots, pl \in Plans : PostPlot(p, pl, TRUE)
  \/ \E p \in Plots : EnableMotorsDone(p, TRUE)
  \/ \E p \in Plots : SetPenHeightDone(p, TRUE)
  \/ \E p \in Plots : ExecuteMotionDone(p, TRUE)
  \/ \E p \in Plots : PenUpDone(p, TRUE)
  \/ \E p \in Plots : WaitIdleDone(p, TRUE)
  \/ \E p \in Plots : DisableMotorsDone(p, TRUE)
  \/ \E p \in Plots : TimerDone(p)
  \/ PostCancel

SpecOverlap == Init /\ [][NextOverlap]_vars

\* ------------------------------------------------------- reading a trace
IsEvent(e) == e.k \in {"progress", "finished", "cancelled"}
IsTerminal(e) == e.k \in {"finished", "cancelled"}
IsDeviceCall(e) ==
  e.k \in {"enableMotors", "setPenHeight", "executeMotion", "waitUntilMotorsIdle",
           "disableMotors"}
\* the start of a motion's execution: the device call, or the simulation's timer
IsMotionStart(e) == e.k \in {"executeMotion", "setTimeout"}

\* the events a plot has broadcast, in order
Events(tr) == SelectSeq(tr, IsEvent)
NProgress(tr) == Len(SelectSeq(tr, LAMBDA e : e.k = "progress"))
LastEventIs(tr, k) == Events(tr) # <<>> /\ Events(tr)[Len(Events(tr))].k = k
Has(tr, k) == \E j \in 1..Len(tr) : tr[j].k = k

\* a cancel request arrived while motion i was executing
CancelDuringMotion(tr, i) ==
  \E j \in 2..Len(tr) :
    tr[j].k = "cancel" /\ IsMotionStart(tr[j - 1]) /\ tr[j - 1].a = i
\* a cancel request arrived during enableMotors or the initial setPenHeight
CancelDuringSetup(tr) ==
  \E j \in 2..Len(tr) :
    tr[j].k = "cancel" /\ tr[j - 1].k \in {"enableMotors", "setPenHeight"}
       /\ ~Has(SubSeq(tr, 1, j), "progress")
\* the motion during which a cancel request arrived, -1 if there is none
CancelAt(tr) ==
  IF \E i \in 0..Len(tr) : CancelDuringMotion(tr, i)
  THEN CHOOSE i \in 0..Len(tr) : CancelDuringMotion(tr, i)
  ELSE -1

\* the result of the device call at place j: "ok", "fail", or "pending"
ResultOf(tr, j) ==
  LET r == IF j + 1 <= Len(tr) /\ tr[j + 1].k = "cancel" THEN j + 2 ELSE j + 1
  IN IF r <= Len(tr) THEN tr[r].k ELSE "pending"

\* ------------------------------------------------------------------ C1
\* C1 as stated: a plot execution that broadcasts a terminal event has broadcast
\* exactly N progress events, motionIdx 0..N-1 in order, and then that one
\* terminal event.
C1_AsStated ==
  \A p \in Plots :
    LET ev == Events(trace[p])
        n == Len(plan[p]) IN
    (\E j \in 1..Len(ev) : IsTerminal(ev[j])) =>
      /\ Len(ev) = n + 1
      /\ \A j \in 1..n : ev[j] = E("progress", j - 1, 0)
      /\ IsTerminal(ev[n + 1])

\* C1 amended: a plot execution broadcasts progress events with motionIdx
\* 0, 1, ..., k-1 in this order, k <= N, and after them at most one terminal
\* event and nothing else; before finished k = N, before cancelled k = i+1 where
\* motion i is the one after which cancellation was observed; an execution that
\* returns normally has broadcast exactly one terminal event.
C1_Amended ==
  \A p \in Plots :
    LET ev == Events(trace[p])
        k == NProgress(trace[p])
        n == Len(plan[p]) IN
    /\ k <= n
    /\ \A j \in 1..k : ev[j] = E("progress", j - 1, 0)
    /\ Len(ev) <= k + 1
    /\ LastEventIs(trace[p], "finished") => k = n
    /\ LastEventIs(trace[p], "cancelled") => k = idx[p] + 1 /\ k >= 1
    /\ pc[p] = "done" => Len(ev) = k + 1 /\ IsTerminal(ev[k + 1])

\* a simulated plot of two motions cancelled after its first motion has ended
C1_Witness ==
  \E p \in Plots :
    /\ pc[p] = "done" /\ kind[p] = "sim" /\ Len(plan[p]) = 2
    /\ Events(trace[p]) = <<E("progress", 0, 0), E("cancelled", 0, 0)>>

\* ------------------------------------------------------------------ C2
\* C2: when a cancel request arrives while motion i of the only running plot is
\* executing, the next entry of the plot's trace is the result of motion i
\* (nothing aborts it), no motion after i is started, no progress event after
\* progress i is broadcast, finished is never broadcast, and a plot that returns
\* has broadcast cancelled as its last event.
C2_CancelDuringMotion ==
  \A p \in Plots : \A i \in 0..(Len(plan[p]) - 1) :
    (~overlap /\ CancelDuringMotion(trace[p], i)) =>
      LET tr == trace[p]
          j == CHOOSE x \in 2..Len(tr) :
                 tr[x].k = "cancel" /\ IsMotionStart(tr[x - 1]) /\ tr[x - 1].a = i
      IN /\ j < Len(tr) => tr[j + 1].k \in {"ok", "fail"}
         /\ \A x \in 1..Len(tr) : IsMotionStart(tr[x]) => tr[x].a <= i
         /\ \A x \in 1..Len(tr) : tr[x].k = "progress" => tr[x].a <= i
         /\ ~Has(tr, "finished")
         /\ pc[p] = "done" => LastEventIs(tr, "cancelled")

\* a hardware plot of two motions, cancelled during its first motion, has returned
C2_Witness ==
  \E p \in Plots :
    /\ pc[p] = "done" /\ kind[p] = "hw" /\ Len(plan[p]) = 2
    /\ CancelDuringMotion(trace[p], 0)
    /\ ~overlap

\* ------------------------------------------------------------------ C3
\* C3: a hardware plot attempt that has ended, by returning (finished or
\* cancelled) or because a device operation failed, after its enableMotors took
\* effect, has issued waitUntilMotorsIdle and then disableMotors.
C3_MotorsDisabledAtEnd ==
  \A p \in Plots :
    (kind[p] = "hw" /\ (pc[p] = "done" \/ (pc[p] = "failed" /\ Has(trace[p], "fail")))
       /\ \E j \in 1..Len(trace[p]) :
            trace[p][j].k = "enableMotors" /\ ResultOf(trace[p], j) = "ok")
    => \E j \in 1..Len(trace[p]) : \E l \in (j + 1)..Len(trace[p]) :
         trace[p][j].k = "waitUntilMotorsIdle" /\ trace[p][l].k = "disableMotors"

\* ------------------------------------------------------------------ C4
\* C4: the supervisor never stops, and whenever tryOpen succeeds, after any
\* number of empty discoveries and failed opens, the step leaves ebb holding
\* the new handle with the path that was opened, the supervisor waiting for
\* that handle to close, and the last broadcast a dev message with that path,
\* sent to every registered observer whose socket is open.
C4_SupervisorNeverStops ==
  /\ [](sup.pc \in {"list", "sleepList", "sleepRetry", "open", "connected"})
  /\ [][(sup.pc = "open" /\ nhandles' = nhandles + 1) =>
          /\ ebb' = [id |-> nhandles', path |-> sup.com]
          /\ sup'.pc = "connected"
          /\ lastBroadcast'.msg = Msg("dev", sup.com, -1)
          /\ \A w \in Range(clients) : wsState[w] = "open" => lastDev'[w] = sup.com]_vars
  /\ [][(sup.pc \in {"list", "open"} /\ sup'.pc \notin {"list", "open", "connected"})
          => sup'.pc \in {"sleepList", "sleepRetry"}]_vars
  /\ [][sup.pc \in {"sleepList", "sleepRetry"} => sup'.pc \in {sup.pc, "list"}]_vars

\* connected to a second handle after MaxRetries backoff sleeps (empty
\* discoveries, failed discoveries or failed opens), the dev message delivered
C4_Witness ==
  /\ sup.pc = "connected" /\ sup.retries = MaxRetries
  /\ ebb.id = 2 /\ ebb.path \in Paths
  /\ lastBroadcast.msg = Msg("dev", ebb.path, -1)
  /\ lastBroadcast.delivered # {}
  /\ \A w \in lastBroadcast.delivered : lastDev[w] = ebb.path

\* ------------------------------------------------------------------ C5
\* C5: the step that registers an observer appends it to the observer set and
\* sends it one dev message with the current connection state: the handle's
\* path if a device is connected, null if not; the state itself is unchanged.
C5_RegistrationSendsDev ==
  [][\A w \in Observers :
       (wsState[w] = "none" /\ wsState'[w] = "open") =>
         /\ clients' = Append(clients, w)
         /\ lastDev'[w] = (IF ebb = Null THEN "null" ELSE ebb.path)
         /\ lastDev'[w] \in Paths \cup {"null"}
         /\ ebb' = ebb]_vars

\* two observers registered at different connection states: the first was sent
\* null before any dev broadcast reached it, the second the path of the handle
C5_Witness ==
  \E w, x \in Observers :
    /\ wsState[w] = "closed" /\ lastDev[w] = "null"
    /\ wsState[x] = "open" /\ lastDev[x] \in Paths /\ lastDev[x] = ebb.path
    /\ lastBroadcast.delivered = {}

\* ------------------------------------------------------------------ C6
\* C6: every broadcast call sends the event to every registered observer whose
\* socket is open, whatever the place of the failing ones in the set, and does
\* not throw: no plot fails and the supervisor is never stopped by it.
C6_BroadcastIsolatesFailures ==
  /\ [][lastBroadcast'.tick # lastBroadcast.tick =>
          /\ lastBroadcast'.delivered = {w \in Range(clients) : wsState[w] = "open"}
          /\ ~lastBroadcast'.threw]_vars
  /\ [](\A p \in Plots : ~Has(trace[p], "throw") /\ pc[p] # "failed")
  /\ [](sup.pc # "stopped")

\* a progress event of a simulated plot was broadcast to the set <<1, 2>>: the
\* send to observer 1 failed, observer 2 was sent the event, the plot went on
C6_Witness ==
  /\ clients = <<1, 2>> /\ wsState[1] = "closed" /\ wsState[2] = "open"
  /\ lastBroadcast.msg = ProgressMsg(1)
  /\ lastBroadcast.delivered = {2}
  /\ pc[1] = "sleep" /\ idx[1] = 1

\* ------------------------------------------------------------------ C7
NoDeviceFailure(tr) == ~Has(tr, "fail") /\ ~Has(tr, "TypeError: ebb is null")

\* C7: a hardware execution and a simulated execution of the same plan, each
\* run alone, with the cancel request placed alike (during motion i, or none)
\* and no device operation failing, that have both ended, have broadcast the
\* same sequence of progress, finished and cancelled events.
C7_SameEventsAsSimulation ==
  \A p, q \in Plots :
    (/\ kind[p] = "hw" /\ kind[q] = "sim"
     /\ plan[p] = plan[q]
     /\ pc[p] \in Ended /\ pc[q] \in Ended
     /\ ~overlap
     /\ NoDeviceFailure(trace[p]) /\ NoDeviceFailure(trace[q])
     /\ CancelAt(trace[p]) = CancelAt(trace[q]))
    => Events(trace[p]) = Events(trace[q])

\* ------------------------------------------------------------------ C8
\* C8: a request whose execution has ended, by returning or by failing, holds no
\* wake-lock: a lock that was acquired has been released, one that could not be
\* acquired is still unacquired and the plot ran all the same; until then an
\* acquired lock is held.
C8_WakeLockReleased ==
  \A p \in Plots :
    /\ pc[p] = "idle" => wake[p] = "none"
    /\ Active(p) => wake[p] = (IF trace[p][1].a = 1 THEN "held" ELSE "unavailable")
    /\ pc[p] \in Ended =>
         wake[p] = (IF trace[p][1].a = 1 THEN "released" ELSE "unavailable")

\* a hardware plot that failed at a device operation, its lock released
C8_Witness ==
  \E p \in Plots :
    pc[p] = "failed" /\ Has(trace[p], "fail") /\ wake[p] = "released"

\* ------------------------------------------------------------------ C9
\* C9 as stated: a single plot that returns after a cancel request arrived at any
\* moment between its submission and the completion of its last motion ends
\* with cancelled.
C9_AsStated ==
  \A p \in Plots :
    (~overlap /\ pc[p] = "done" /\ Has(trace[p], "cancel"))
      => LastEventIs(trace[p], "cancelled")

\* C9 amended: a single plot that returns ends with cancelled exactly if a cancel
\* request arrived while one of its motions was executing; a request that arrives
\* on the hardware path during enableMotors or the initial setPenHeight is
\* discarded by the reset before the loop, and the plot ends with finished
\* unless a later request arrives.
C9_Amended ==
  \A p \in Plots :
    (~overlap /\ pc[p] = "done") =>
      /\ LastEventIs(trace[p], "cancelled")
           <=> \E i \in 0..(Len(plan[p]) - 1) : CancelDuringMotion(trace[p], i)
      /\ LastEventIs(trace[p], "finished")
           <=> ~\E i \in 0..(Len(plan[p]) - 1) : CancelDuringMotion(trace[p], i)

\* a hardware plot that received a cancel request during its setup and ended
\* with finished
C9_Witness ==
  \E p \in Plots :
    /\ pc[p] = "done" /\ kind[p] = "hw" /\ ~overlap
    /\ CancelDuringSetup(trace[p])
    /\ LastEventIs(trace[p], "finished")

\* ------------------------------------------------------------------ C10
\* C10: every device operation of a hardware plot goes to the handle that was
\* current when the plot started (the one its enableMotors went to).
C10_OneHandlePerPlot ==
  \A p \in Plots :
    \A j \in 1..Len(trace[p]) :
      IsDeviceCall(trace[p][j]) => trace[p][j].h = trace[p][2].h

\* ------------------------------------------------------------------ C11
\* the motions a plot has started, in order
MotionStarts(tr) == SelectSeq(tr, IsMotionStart)

\* motion i - 1 was started and has completed right before place j of the trace
CompletedBefore(tr, j, i) ==
  /\ j > 2 /\ tr[j - 1].k = "ok"
  /\ \/ IsMotionStart(tr[j - 2]) /\ tr[j - 2].a = i - 1
     \/ j > 3 /\ tr[j - 2].k = "cancel" /\ IsMotionStart(tr[j - 3]) /\ tr[j - 3].a = i - 1

\* C11: within one plot execution the k-th motion started is motion k-1 of the
\* plan (plan order, none skipped, none repeated); each motion i is started
\* right after progress i was broadcast, and progress i, for i > 0, right after
\* motion i-1 completed, so no two motions are in flight at once; a plot that
\* broadcast finished has started all its motions.
C11_MotionsInPlanOrder ==
  \A p \in Plots :
    LET tr == trace[p]
        ms == MotionStarts(tr) IN
    /\ Len(ms) <= Len(plan[p])
    /\ \A k \in 1..Len(ms) : ms[k].a = k - 1
    /\ \A j \in 1..Len(tr) :
         IsMotionStart(tr[j]) =>
           /\ j > 1 /\ tr[j - 1] = E("progress", tr[j].a, 0)
           /\ tr[j].a > 0 => CompletedBefore(tr, j - 1, tr[j].a)
    /\ \A j \in 1..Len(tr) :
         (tr[j].k = "progress" /\ tr[j].a > 0) => CompletedBefore(tr, j, tr[j].a)
    /\ LastEventIs(tr, "finished") => Len(ms) = Len(plan[p])

\* a hardware plot of two motions has executed both and returned
C11_Witness ==
  \E p \in Plots :
    /\ pc[p] = "done" /\ kind[p] = "hw" /\ Len(plan[p]) = 2
    /\ Len(MotionStarts(trace[p])) = 2
    /\ LastEventIs(trace[p], "finished")

\* ------------------------------------------------------------------ C12
\* C12: every step that changes ebb broadcasts, in that step, a dev message with
\* the new handle's path, or null, to every registered observer whose socket is
\* open, and changes between no handle and a handle; a dev message is
\* broadcast only by such a step.  So after every step the last dev message
\* sent to a registered observer with an open socket tells the current
\* connection state, and the dev messages an observer is sent alternate
\* between a path and null.
C12_DevStatePublished ==
  /\ [][ebb' # ebb =>
          /\ lastBroadcast'.tick # lastBroadcast.tick
          /\ lastBroadcast'.msg = Msg("dev", IF ebb' = Null THEN "null" ELSE ebb'.path, -1)
          /\ lastBroadcast'.delivered = {w \in Range(clients) : wsState[w] = "open"}
          /\ (ebb = Null) # (ebb' = Null)]_vars
  /\ [][(lastBroadcast'.tick # lastBroadcast.tick /\ lastBroadcast'.msg.c = "dev")
          => ebb' # ebb]_vars
  /\ [](\A w \in Range(clients) :
          wsState[w] = "open" => lastDev[w] = (IF ebb = Null THEN "null" ELSE ebb.path))
  /\ [][\A w \in Observers :
          (wsState[w] = "open" /\ wsState'[w] = "open" /\ lastDev'[w] # lastDev[w])
            => (lastDev[w] = "null") # (lastDev'[w] = "null")]_vars

\* the first handle's link was lost: the observer with an open socket was sent
\* null after that handle's path, the one whose socket had closed was not
C12_Witness ==
  /\ ebb = Null /\ nhandles = 1
  /\ lastBroadcast.msg = Msg("dev", "null", -1)
  /\ \E w, x \in Observers :
       /\ w \in lastBroadcast.delivered /\ wsState[w] = "open" /\ lastDev[w] = "null"
       /\ wsState[x] = "closed" /\ lastDev[x] \in Paths

\* ------------------------------------------------------------------ C13
\* C13: when the server was started with a device argument, the supervisor
\* never runs discovery (EBB.list, or the sleep between two lists): every port
\* it opens or has opened is the configured one.
C13_ConfiguredAddressIsOpened ==
  device # NoDevice =>
    /\ sup.pc \notin {"list", "sleepList"}
    /\ sup.pc = "open" => sup.com = device
    /\ ebb # Null => ebb.path = device

\* ------------------------------------------------------------------ C14
IsTypeError(e) ==
  e.k \in {"TypeError: ebb is null", "TypeError: firstPenMotion is undefined"}

\* C14: a device operation that fails is the last thing its plot does: the
\* operation is not issued again, no motion is started and no event broadcast
\* after it, and the plot's promise rejects into the /plot handler.  A plot
\* fails for no other reason than a failed device operation or a TypeError at
\* a device call: a simulated plot never fails, and a cancel request makes no
\* plot fail.
C14_FailureEndsThePlot ==
  \A p \in Plots :
    LET tr == trace[p] IN
    /\ \A j \in 1..Len(tr) :
         tr[j].k = "fail" =>
           /\ j = Len(tr)
           /\ pc[p] = "failed" /\ kind[p] = "hw"
           /\ \/ IsDeviceCall(tr[j - 1])
              \/ tr[j - 1].k = "cancel" /\ IsDeviceCall(tr[j - 2])
    /\ pc[p] = "failed" => tr[Len(tr)].k = "fail" \/ IsTypeError(tr[Len(tr)])
    /\ kind[p] = "sim" => pc[p] # "failed"

\* the second motion of a hardware plot failed after a cancel request had
\* arrived during it: the plot failed there, with two progress events
C14_Witness ==
  \E p \in Plots :
    LET tr == trace[p] IN
    /\ pc[p] = "failed" /\ Len(tr) > 3
    /\ tr[Len(tr)].k = "fail" /\ tr[Len(tr) - 1].k = "cancel"
    /\ tr[Len(tr) - 2] = E("executeMotion", 1, 1)
    /\ NProgress(tr) = 2

\* ------------------------------------------------------------------ C15
\* the trace of a hardware plot has the steps of the cancelled branch in the
\* code's order: the pen-up setPenHeight, its completion, the cancelled event,
\* waitUntilMotorsIdle, its completion, disableMotors
CancelledBranchInOrder(p) ==
  LET tr == trace[p] IN
  /\ \A j \in 1..Len(tr) :
       tr[j].k = "cancelled" =>
         /\ j > 2 /\ tr[j - 1].k = "ok"
         /\ tr[j - 2].k = "setPenHeight" /\ tr[j - 2].a = PenUpPos
         /\ j < Len(tr)
         /\ tr[j + 1].k \in {"waitUntilMotorsIdle", "TypeError: ebb is null"}
         /\ \A l \in 1..(j - 1) : tr[l].k \notin {"waitUntilMotorsIdle", "disableMotors"}
  /\ (pc[p] = "done" /\ Has(tr, "cancelled")) =>
       /\ Len(tr) > 4
       /\ tr[Len(tr) - 4].k = "cancelled"
       /\ tr[Len(tr) - 3].k = "waitUntilMotorsIdle"
       /\ tr[Len(tr) - 1].k = "disableMotors"

\* C15 as stated: on the hardware path the cancelled branch runs in the code's
\* order, and when the plot ends with cancelled the cancellation signal is false.
C15_AsStated ==
  /\ [](\A p \in Plots : kind[p] = "hw" => CancelledBranchInOrder(p))
  /\ [][\A p \in Plots :
          (kind[p] = "hw" /\ pc[p] # "done" /\ pc'[p] = "done"
             /\ Has(trace'[p], "cancelled"))
          => ~cancelRequested']_vars

\* C15 amended: on the hardware path the cancelled branch runs in the code's
\* order; the step that broadcasts cancelled is the one that resumes after the
\* pen-up completed, and it leaves the signal false; after it the plot never
\* sets the signal, so when the plot ends the signal is false unless a cancel
\* request arrived after the cancelled event.
C15_Amended ==
  /\ [](\A p \in Plots : kind[p] = "hw" => CancelledBranchInOrder(p))
  /\ [][\A p \in Plots :
          (kind[p] = "hw" /\ ~Has(trace[p], "cancelled") /\ Has(trace'[p], "cancelled"))
          => pc[p] = "penUp" /\ cancelRequested /\ ~cancelRequested']_vars
  /\ [][(~cancelRequested /\ cancelRequested') => pc' = pc /\ idx' = idx]_vars

\* a hardware plot, cancelled during its first motion, has returned with the
\* signal false
C15_Witness ==
  \E p \in Plots :
    /\ pc[p] = "done" /\ kind[p] = "hw" /\ Len(plan[p]) = 2
    /\ CancelDuringMotion(trace[p], 0)
    /\ LastEventIs(trace[p], "cancelled")
    /\ trace[p][Len(trace[p]) - 6] = E("setPenHeight", PenUpPos, 1)
    /\ ~cancelRequested

\* ------------------------------------------------------------------ C16
\* C16: a plot submitted alone while the signal was still set by an earlier
\* cancel request, and during whose setup and motions no cancel request
\* arrived, never takes the cancelled branch: when it returns it has started
\* all N motions, broadcast N progress events and ended with finished.
C16_StaleCancelIsDiscarded ==
  \A p \in Plots :
    (stale[p] /\ ~overlap /\ ~Has(trace[p], "cancel")) =>
      /\ ~Has(trace[p], "cancelled")
      /\ \A j \in 1..Len(trace[p]) :
           ~(trace[p][j].k = "setPenHeight" /\ trace[p][j].a = PenUpPos)
      /\ pc[p] \in {"executeMotion", "sleep"} => ~cancelRequested
      /\ pc[p] = "done" =>
           /\ LastEventIs(trace[p], "finished")
           /\ NProgress(trace[p]) = Len(plan[p])
           /\ Len(SelectSeq(trace[p], IsMotionStart)) = Len(plan[p])

\* a hardware plot of two motions, submitted with the signal set, has returned
\* with finished
C16_Witness ==
  \E p \in Plots :
    /\ stale[p] /\ kind[p] = "hw" /\ pc[p] = "done" /\ Len(plan[p]) = 2
    /\ ~Has(trace[p], "cancel")
    /\ LastEventIs(trace[p], "finished") /\ NProgress(trace[p]) = 2

\* ------------------------------------------------------------------ C17
\* C17: the step that accepts a plot routes it by the connection state of that
\* moment, to simulation if no device is connected, and the routing never
\* changes; a simulated plot issues no device operation and awaits only its
\* timers, whatever the supervisor does meanwhile; no step of a simulated plot
\* changes the connection state or the supervisor.
C17_SimulationUsesNoDevice ==
  /\ [](\A p \in Plots :
          kind[p] = "sim" =>
            /\ pc[p] \in {"sleep", "done"}
            /\ \A j \in 1..Len(trace[p]) :
                 ~IsDeviceCall(trace[p][j]) /\ ~IsTypeError(trace[p][j]))
  /\ [][\A p \in Plots :
          (pc[p] = "idle" /\ pc'[p] # "idle")
            => kind'[p] = (IF ebb = Null THEN "sim" ELSE "hw")]_vars
  /\ [][\A p \in Plots : kind[p] # "none" => kind'[p] = kind[p]]_vars
  /\ [][\A p \in Plots :
          (kind'[p] = "sim" /\ (pc'[p] # pc[p] \/ idx'[p] # idx[p]))
            => ebb' = ebb /\ sup' = sup /\ nhandles' = nhandles]_vars

\* a simulated plot of two motions has returned with finished as the last
\* broadcast while a device is connected: the device connected, and its dev
\* message was broadcast, while the simulation was running
C17_Witness ==
  \E p \in Plots :
    /\ kind[p] = "sim" /\ pc[p] = "done" /\ Len(plan[p]) = 2
    /\ ebb # Null
    /\ lastBroadcast.msg = FinishedMsg

\* ------------------------------------------------------------------ C18
\* C18: the /plot handler accepts a plot whatever the other plots are doing:
\* the next request is always accepted, the accepting step leaves every other
\* plot where it is, and when it starts a simulation it clears the signal that
\* a running plot has not yet read.
C18_OverlappingPlotIsAccepted ==
  /\ [](\A q \in Plots :
          (pc[q] = "idle" /\ \A r \in Plots : r < q => pc[r] # "idle")
            => ENABLED PostPlot(q, <<>>, TRUE))
  /\ [][\A q \in Plots :
          (pc[q] = "idle" /\ pc'[q] # "idle") =>
            /\ \A p \in Plots \ {q} :
                 pc'[p] = pc[p] /\ idx'[p] = idx[p] /\ trace'[p] = trace[p]
            /\ kind'[q] = "sim" => ~cancelRequested']_vars

\* plot 1 received a cancel request during its first motion, plot 2 was then
\* submitted, and both plots returned with finished: plot 1 executed its second
\* motion, and the request cancelled neither plot
C18_Witness ==
  /\ pc[1] = "done" /\ pc[2] = "done" /\ overlap
  /\ Len(plan[1]) = 2 /\ CancelDuringMotion(trace[1], 0)
  /\ Len(SelectSeq(trace[1], IsMotionStart)) = 2
  /\ LastEventIs(trace[1], "finished") /\ ~Has(trace[1], "cancelled")
  /\ stale[2] /\ ~Has(trace[2], "cancel")
  /\ LastEventIs(trace[2], "finished") /\ ~Has(trace[2], "cancelled")

\* ------------------------------------------------------------------ C19
\* the place in the trace where the result of the device call at place j stands
ResultPlace(tr, j) ==
  IF j + 1 <= Len(tr) /\ tr[j + 1].k = "cancel" THEN j + 2 ELSE j + 1

\* C19: on the hardware path, for every plan, with or without a pen motion,
\* once enableMotors has completed the plot goes on to setPenHeight (unless the
\* device is gone), and every progress event and every executeMotion comes
\* after the completion of enableMotors and of a setPenHeight to the initial
\* position of the plan's first pen motion.
C19_PenSetBeforeMotion ==
  \A p \in Plots :
    kind[p] = "hw" =>
      LET tr == trace[p] IN
      /\ \A j \in 1..Len(tr) :
           (tr[j].k = "enableMotors" /\ ResultOf(tr, j) = "ok") =>
             tr[ResultPlace(tr, j) + 1].k \in {"setPenHeight", "TypeError: ebb is null"}
      /\ \A j \in 1..Len(tr) :
           tr[j].k \in {"progress", "executeMotion"} =>
             /\ tr[2].k = "enableMotors" /\ ResultOf(tr, 2) = "ok"
             /\ \E l \in 3..(j - 1) :
                  /\ tr[l].k = "setPenHeight"
                  /\ tr[l].a = InitialPos(plan[p], FirstPenIdx(plan[p]))
                  /\ ResultOf(tr, l) = "ok"
                  /\ ResultPlace(tr, l) < j

\* ------------------------------------------------------------------ C20
\* the events progress 0, ..., progress i
ProgressUpTo(i) == [k \in 1..(i + 1) |-> E("progress", k - 1, 0)]

\* C20: a single plot during whose motion i a cancel request arrived, and which
\* has broadcast its terminal event or has returned, has broadcast exactly
\* progress 0, ..., progress i and then cancelled; so for a request during the
\* last motion, when all N motions were executed.  In every plot a terminal
\* event is the last event: no second terminal event and no progress event
\* follows it.
C20_CancelledEventCount ==
  \A p \in Plots :
    LET tr == trace[p]
        ev == Events(tr) IN
    /\ \A i \in 0..(Len(plan[p]) - 1) :
         (~overlap /\ CancelDuringMotion(tr, i)
            /\ (pc[p] = "done" \/ \E j \in 1..Len(ev) : IsTerminal(ev[j])))
         => /\ ev = ProgressUpTo(i) \o <<E("cancelled", 0, 0)>>
            /\ Len(SelectSeq(tr, IsMotionStart)) = i + 1
    /\ \A j \in 1..Len(ev) : IsTerminal(ev[j]) => j = Len(ev)

\* a hardware plot of two motions, cancelled during its last motion, has
\* returned: two progress events, then cancelled
C20_Witness ==
  \E p \in Plots :
    /\ pc[p] = "done" /\ kind[p] = "hw" /\ Len(plan[p]) = 2 /\ ~overlap
    /\ CancelDuringMotion(trace[p], 1)
    /\ Events(trace[p]) = <<E("progress", 0, 0), E("progress", 1, 0), E("cancelled", 0, 0)>>

====
